---- MODULE Spec2Model ----
(***************************************************************************)
(* Model of kanata-bot (bot.py): the per-user conversation memory          *)
(* user_conversations, the upstream client call_f5ai_api and the Telegram  *)
(* handlers start_command, help_command, reset_command, handle_text,       *)
(* handle_document and error_handler.                                      *)
(*                                                                         *)
(* A handler is a coroutine: it runs without interruption between two      *)
(* awaits.  Each action below is one such uninterrupted stretch of one     *)
(* handler, from the place where it is resumed up to its next await (or    *)
(* its return).  The application is built with ApplicationBuilder()        *)
(* .token(...).build() (bot.py:151), i.e. without concurrent updates, so   *)
(* under Spec one update is handled at a time.                             *)
(***************************************************************************)
EXTENDS Integers, Sequences, FiniteSets, TLC

VARIABLES
    F5AI_API_KEY,        \* bot.py:18, fixed when the module is loaded
    user_conversations,  \* bot.py:34, dict user id -> list of messages
    ev,                  \* per handler slot: the update being handled
    turns                \* history variable: user turns appended since the
                         \* user's conversation was last (re)created

vars == <<F5AI_API_KEY, user_conversations, ev, turns>>

----------------------------------------------------------------------------
(* Bounds and input domains *)

\* text events are accepted only while fewer than MaxStored messages are
\* stored over all users (keeps the set of stores finite and small)
MaxStored == 13
\* the same limit under FairSpec
MaxFairStored == 5
\* the same limit under SpecOverlap
MaxOverlapStored == 3

Users == {1, 2}
Slots == {1, 2}
\* slots used when updates are handled one at a time
SeqSlots == {1}

None == "<None>"
\* values os.getenv can give: unset, set but empty, set
ApiKeys == {None, "", "secret"}

Texts == {"hello"}
\* texts when two updates are in flight: the two carry different texts
SlotTexts(h) == IF h = 1 THEN {"hello"} ELSE {"bye"}
MimeTypes == {"text/plain", "application/pdf"}
\* payload of an uploaded file: bytes that are the UTF-8 encoding of
\* `text`, or bytes that are not valid UTF-8
Payloads == {[valid |-> TRUE, text |-> "hello"], [valid |-> FALSE, text |-> ""]}

----------------------------------------------------------------------------
(* Program constants *)

MAX_CONVERSATION_HISTORY == 10

SYSTEM_PROMPT == "Ty - druzhelyubnyy i poleznyy II-assistent. Tvoe imya Kanata AI."
SystemMessage == [role |-> "system", content |-> SYSTEM_PROMPT]

\* reply texts (transliterated)
ConfigErrorReply == "F5AI API klyuch ne nastroen."
RephraseReply == "Otvet pustoy. Poprobuy pereformulirovat zapros."
RejectReply == "Pozhaluysta, otprav obychnyy tekstovyy fayl (.txt)."
FileReceivedReply == "Fayl poluchen! Obrabatyvayu ego soderzhimoe..."
ApologyReply == "Proizoshla oshibka. Poprobuy snova pozzhe."
GreetingReply == "Privet! Ya - Kanata AI"
HelpReply == "/start /reset .txt"
ResetReply == "Istoriya dialoga sbroshena! Mozhesh nachat zanovo~"
\* f"Oshibka: {api_response['error']}"
ErrorReply(e) == "Oshibka: " \o e

----------------------------------------------------------------------------
(* Python values *)

\* a dict is a function; {} is the function with empty domain
EmptyDict == <<>>
\* d.get(k, default)
Get(d, k, default) == IF k \in DOMAIN d THEN d[k] ELSE default
\* JSON values a "content" field can hold
JStr(s) == [t |-> "str", v |-> s]
JNull == [t |-> "null", v |-> ""]
\* variant: tests only for None
TruthyIsNotNone(x) == x # None

\* truth value of a Python str or None: None and "" are false
Truthy(x) == x # None /\ x # ""
\* variant: tests only for null
JTruthyIsNotNull(c) == c.t = "str"

\* truth value of a JSON value: null and "" are false
JTruthy(c) == c.t = "str" /\ c.v # ""

\* lst[-n:] for n > 0
LastN(lst, n) == SubSeq(lst, (IF Len(lst) > n THEN Len(lst) - n ELSE 0) + 1, Len(lst))

\* d[k] = v on a dict
DictSet(d, k, v) == [x \in DOMAIN d \cup {k} |-> IF x = k THEN v ELSE d[x]]

----------------------------------------------------------------------------
(* Upstream client *)

\* what requests.post / raise_for_status / response.json() can do
\* (bot.py:55-57): raise a RequestException (timeout, connection error,
\* non-2xx status), raise another exception (body is not JSON), or give
\* the decoded JSON body
ContentValues == {JStr("answer"), JStr(""), JNull}
JsonBodies ==
    {[choices |-> <<[message |-> [content |-> c]]>>] : c \in ContentValues}
    \cup {[choices |-> <<[message |-> EmptyDict]>>],
          [choices |-> <<EmptyDict>>],
          [choices |-> <<>>],
          EmptyDict,
          [error |-> "upstream says no"]}
HttpOutcomes ==
    {[exc |-> "RequestException", detail |-> d, json |-> EmptyDict] :
        d \in {"Read timed out", "Connection refused", "500 Server Error"}}
    \cup {[exc |-> "Exception", detail |-> "Expecting value", json |-> EmptyDict]}
    \cup {[exc |-> "none", detail |-> "", json |-> j] : j \in JsonBodies}

\* outcomes when two updates are in flight: a completion, a timeout
OverlapOutcomes ==
    {x \in HttpOutcomes :
        \/ x.exc = "none" /\ x.json = [choices |-> <<[message |-> [content |-> JStr("answer")]]>>]
        \/ x.detail = "Read timed out"}

\* whether call_f5ai_api gets as far as requests.post
Posts(key) == Truthy(key)

\* variant: a failed request is sent a second time
AttemptsWithRetry(http) == IF http.exc = "RequestException" THEN 2 ELSE 1

\* bot.py:53-63: the number of requests.post calls one call_f5ai_api
\* makes when the outcome is http: one, and both except clauses return
Attempts(http) == 1

\* the dict call_f5ai_api returns
call_f5ai_api(key, http) ==
    IF ~Truthy(key) THEN [error |-> "F5AI_API_KEY is not configured."]
    ELSE IF http.exc = "RequestException" THEN [error |-> "Oshibka zaprosa: " \o http.detail]
    ELSE IF http.exc = "Exception" THEN [error |-> "Nepredvidennaya oshibka: " \o http.detail]
    ELSE http.json

\* api_response.get("choices", [{}])[0].get("message", {}).get("content", "")
\* raised: the [0] on an empty list raises IndexError
ExtractContent(api_response) ==
    LET choices == Get(api_response, "choices", <<EmptyDict>>)
    IN  IF Len(choices) = 0
        THEN [raised |-> "IndexError", content |-> JNull]
        ELSE [raised |-> "none",
              content |-> Get(Get(choices[1], "message", EmptyDict), "content", JStr(""))]

\* variant: no test for the "error" key
OutcomeNoErrorTest(api_response) ==
    LET got == ExtractContent(api_response)
    IN  IF got.raised # "none"
        THEN [reply |-> <<>>, raised |-> got.raised, pc |-> "error_handler"]
        ELSE IF JTruthy(got.content)
        THEN [reply |-> <<got.content.v>>, raised |-> "none", pc |-> "await_append"]
        ELSE [reply |-> <<RephraseReply>>, raised |-> "none", pc |-> "await_return"]

\* bot.py:113-122: what handle_text does with the dict it got back:
\* the reply it sends, whether it raises, and where it goes on
Outcome(api_response) ==
    LET got == ExtractContent(api_response)
    IN  IF "error" \in DOMAIN api_response
        THEN [reply |-> <<ErrorReply(api_response["error"])>>, raised |-> "none", pc |-> "await_return"]
        ELSE IF got.raised # "none"
        THEN [reply |-> <<>>, raised |-> got.raised, pc |-> "error_handler"]
        ELSE IF JTruthy(got.content)
        THEN [reply |-> <<got.content.v>>, raised |-> "none", pc |-> "await_append"]
        ELSE [reply |-> <<RephraseReply>>, raised |-> "none", pc |-> "await_return"]

----------------------------------------------------------------------------
(* Conversation memory *)

FreshHistory == <<SystemMessage>>

\* bot.py:101-104
Ensure(convs, user_id) ==
    IF user_id \notin DOMAIN convs THEN DictSet(convs, user_id, FreshHistory) ELSE convs

\* bot.py:106
AppendUser(history, text) == Append(history, [role |-> "user", content |-> text])

\* variant: the slice takes the system message for one of the entries
TrimDropsSystem(history) ==
    IF Len(history) > MAX_CONVERSATION_HISTORY + 1
    THEN LastN(history, MAX_CONVERSATION_HISTORY + 1)
    ELSE history

\* variant: keeps the oldest entries instead of the newest
TrimKeepsOldest(history) ==
    IF Len(history) > MAX_CONVERSATION_HISTORY + 1
    THEN SubSeq(history, 1, MAX_CONVERSATION_HISTORY + 1)
    ELSE history

\* variant: the slice is one entry too long
TrimOffByOne(history) ==
    IF Len(history) > MAX_CONVERSATION_HISTORY + 1
    THEN <<history[1]>> \o LastN(history, MAX_CONVERSATION_HISTORY + 1)
    ELSE history

\* bot.py:107-108
Trim(history) ==
    IF Len(history) > MAX_CONVERSATION_HISTORY + 1
    THEN <<history[1]>> \o LastN(history, MAX_CONVERSATION_HISTORY)
    ELSE history

\* variant: the reply is inserted before the last entry
AppendAssistantBeforeLast(history, content) ==
    SubSeq(history, 1, Len(history) - 1)
        \o <<[role |-> "assistant", content |-> content]>>
        \o <<history[Len(history)]>>

\* bot.py:120
AppendAssistant(history, content) == Append(history, [role |-> "assistant", content |-> content])

\* variant: the whole memory is reset
ResetHistoryOfAll(convs, user_id) ==
    [x \in DOMAIN convs \cup {user_id} |-> FreshHistory]

\* variant: creates the history only when the user has none
ResetHistoryIfAbsent(convs, user_id) ==
    IF user_id \in DOMAIN convs THEN convs ELSE DictSet(convs, user_id, FreshHistory)

\* bot.py:68-70 and 88-90
ResetHistory(convs, user_id) == DictSet(convs, user_id, FreshHistory)

RECURSIVE SumLen(_, _)
SumLen(convs, us) ==
    IF us = {} THEN 0
    ELSE LET u == CHOOSE x \in us : TRUE IN Len(convs[u]) + SumLen(convs, us \ {u})
TotalStored == SumLen(user_conversations, DOMAIN user_conversations)

----------------------------------------------------------------------------
(* Handlers *)

IdleEvent ==
    [pc |-> "idle", handler |-> "none", user |-> 0, text |-> "", mime |-> "",
     payload |-> [valid |-> FALSE, text |-> ""],
     before |-> EmptyDict, pretrim |-> <<>>, posts |-> 0, reqs |-> <<>>,
     http |-> [exc |-> "none", detail |-> "", json |-> EmptyDict], resp |-> EmptyDict, out |-> <<>>, raised |-> "none",
     crossed |-> FALSE]

\* a new update is taken by slot h: the previous one has been handled
CanTake(h) == ev[h].pc \in {"idle", "done"}

NewEvent(handler, u) ==
    [IdleEvent EXCEPT !.handler = handler, !.user = u, !.before = user_conversations]

\* reply_text / reply_html: the reply goes out and the handler is suspended
Reply(e, text, nextpc) == [e EXCEPT !.out = Append(@, text), !.pc = nextpc]

Bump(n) == IF n > MAX_CONVERSATION_HISTORY THEN n ELSE n + 1

\* history variable: the text events of user u that have appended their
\* message and not yet finished are marked when the history of u is
\* replaced under them (bot.py:68 and 88 running between 106 and 120)
MarkCrossed(evs, u) ==
    [g \in Slots |->
        IF evs[g].user = u /\ evs[g].pc \in {"typing", "await_append"}
        THEN [evs[g] EXCEPT !.crossed = TRUE] ELSE evs[g]]

\* bot.py:66-77
start_command(h, u) ==
    /\ CanTake(h)
    /\ user_conversations' = ResetHistory(user_conversations, u)
    /\ turns' = [turns EXCEPT ![u] = 0]
    /\ ev' = [MarkCrossed(ev, u) EXCEPT ![h] =
                 Reply(NewEvent("start_command", u), GreetingReply, "await_return")]
    /\ UNCHANGED F5AI_API_KEY

\* variant: /help resets the history as /start does
help_command_Resets(h, u) ==
    /\ CanTake(h)
    /\ user_conversations' = ResetHistory(user_conversations, u)
    /\ ev' = [ev EXCEPT ![h] = Reply(NewEvent("help_command", u), HelpReply, "await_return")]
    /\ UNCHANGED <<F5AI_API_KEY, turns>>

\* bot.py:79-84
help_command(h, u) ==
    /\ CanTake(h)
    /\ ev' = [ev EXCEPT ![h] = Reply(NewEvent("help_command", u), HelpReply, "await_return")]
    /\ UNCHANGED <<F5AI_API_KEY, user_conversations, turns>>

\* bot.py:86-91
reset_command(h, u) ==
    /\ CanTake(h)
    /\ user_conversations' = ResetHistory(user_conversations, u)
    /\ turns' = [turns EXCEPT ![u] = 0]
    /\ ev' = [MarkCrossed(ev, u) EXCEPT ![h] =
                 Reply(NewEvent("reset_command", u), ResetReply, "await_return")]
    /\ UNCHANGED F5AI_API_KEY

\* bot.py:93-110: handle_text from its entry to its first await, for the
\* event e (a text message, or a document made to look like one)
TextEntry(h, e) ==
    IF ~Truthy(F5AI_API_KEY)
    THEN /\ ev' = [ev EXCEPT ![h] = Reply(e, ConfigErrorReply, "await_return")]
         /\ UNCHANGED <<user_conversations, turns>>
    ELSE LET u == e.user
             ensured == Ensure(user_conversations, u)
             appended == AppendUser(ensured[u], e.text)
         IN  /\ user_conversations' = DictSet(ensured, u, Trim(appended))
             /\ turns' = [turns EXCEPT ![u] =
                              Bump(IF u \in DOMAIN user_conversations THEN @ ELSE 0)]
             /\ ev' = [ev EXCEPT ![h] = [e EXCEPT !.pretrim = appended, !.pc = "typing"]]

\* bot.py:93-110, for a text message
handle_text(h, u, text) ==
    /\ CanTake(h)
    /\ TotalStored < MaxStored
    /\ TextEntry(h, [NewEvent("handle_text", u) EXCEPT !.text = text])
    /\ UNCHANGED F5AI_API_KEY

\* bot.py:111-122 up to the await of the reply: the upstream call and
\* the choice of the reply
AfterTyping(h, http) ==
    /\ ev[h].pc = "typing"
    /\ LET e == ev[h]
           messages == user_conversations[e.user]
           api_response == call_f5ai_api(F5AI_API_KEY, http)
           called == [e EXCEPT !.posts = IF Posts(F5AI_API_KEY) THEN @ + Attempts(http) ELSE @,
                               !.reqs = IF Posts(F5AI_API_KEY) THEN Append(@, messages) ELSE @,
                               !.http = http,
                               !.resp = api_response]
           o == Outcome(api_response)
       IN  ev' = [ev EXCEPT ![h] =
                [called EXCEPT !.out = @ \o o.reply, !.raised = o.raised, !.pc = o.pc]]
    /\ UNCHANGED <<F5AI_API_KEY, user_conversations, turns>>

\* bot.py:120, after the reply with the content has been sent
RecordAssistant(h) ==
    /\ ev[h].pc = "await_append"
    /\ LET e == ev[h]
           content == ExtractContent(e.resp).content.v
       IN  user_conversations' =
               DictSet(user_conversations, e.user,
                       AppendAssistant(user_conversations[e.user], content))
    /\ ev' = [ev EXCEPT ![h].pc = "done"]
    /\ UNCHANGED <<F5AI_API_KEY, turns>>

\* variant: every declared type is accepted
AcceptedAny(mime_type) == TRUE

\* bot.py:127
Accepted(mime_type) == mime_type = "text/plain"

\* variant: the file is awaited and decoded with errors ignored
DownloadIgnoringErrors(payload) == [raised |-> "none", text |-> payload.text]

\* bot.py:131-132: file.get_file() is a coroutine function of the library
\* and is called without await, so file_obj is a coroutine object and
\* file_obj.download_as_bytearray raises AttributeError, whatever the
\* payload is; the decoding is never reached
Download(payload) == [raised |-> "AttributeError", text |-> ""]

\* bot.py:124-136; lines 134-136 run only if line 132 does not raise
handle_document(h, u, mime, payload) ==
    /\ CanTake(h)
    /\ LET e == [NewEvent("handle_document", u) EXCEPT !.mime = mime, !.payload = payload]
           got == Download(payload)
       IN  IF ~Accepted(mime)
           THEN /\ ev' = [ev EXCEPT ![h] = Reply(e, RejectReply, "await_return")]
                /\ UNCHANGED <<user_conversations, turns>>
           ELSE IF got.raised # "none"
           THEN /\ ev' = [ev EXCEPT ![h] = [e EXCEPT !.raised = got.raised, !.pc = "error_handler"]]
                /\ UNCHANGED <<user_conversations, turns>>
           ELSE /\ TotalStored < MaxStored
                /\ TextEntry(h, [e EXCEPT !.text = got.text, !.out = <<FileReceivedReply>>])
    /\ UNCHANGED F5AI_API_KEY

\* variant: the exception is only logged
error_handler_LogsOnly(h) ==
    /\ ev[h].pc = "error_handler"
    /\ ev' = [ev EXCEPT ![h].pc = "await_return"]
    /\ UNCHANGED <<F5AI_API_KEY, user_conversations, turns>>

\* variant: the exception is raised again and ends the process
error_handler_Reraises(h) ==
    /\ ev[h].pc = "error_handler"
    /\ ev' = [ev EXCEPT ![h].pc = "crashed"]
    /\ UNCHANGED <<F5AI_API_KEY, user_conversations, turns>>

\* bot.py:138-141, called by the application with the update whose
\* handler raised
error_handler(h) ==
    /\ ev[h].pc = "error_handler"
    /\ ev' = [ev EXCEPT ![h] = Reply(@, ApologyReply, "await_return")]
    /\ UNCHANGED <<F5AI_API_KEY, user_conversations, turns>>

\* the awaited reply has gone out and the handler returns
Return(h) ==
    /\ ev[h].pc = "await_return"
    /\ ev' = [ev EXCEPT ![h].pc = "done"]
    /\ UNCHANGED <<F5AI_API_KEY, user_conversations, turns>>

----------------------------------------------------------------------------
(* Specification: updates handled one at a time *)

Init ==
    /\ F5AI_API_KEY \in ApiKeys
    /\ user_conversations = EmptyDict
    /\ ev = [h \in Slots |-> IdleEvent]
    /\ turns = [u \in Users |-> 0]

Next ==
    \E h \in SeqSlots :
        \/ \E u \in Users : start_command(h, u)
        \/ \E u \in Users : help_command(h, u)
        \/ \E u \in Users : reset_command(h, u)
        \/ \E u \in Users, text \in Texts : handle_text(h, u, text)
        \/ \E http \in HttpOutcomes : AfterTyping(h, http)
        \/ RecordAssistant(h)
        \/ \E u \in Users, mime \in MimeTypes, payload \in Payloads : handle_document(h, u, mime, payload)
        \/ error_handler(h)
        \/ Return(h)

Spec == Init /\ [][Next]_vars

\* the steps that resume a suspended handler of slot h: the event loop
\* resumes a coroutine once what it awaits has completed, and the upstream
\* call returns or times out (timeout=45, bot.py:55)
Resume(h) ==
    \/ \E http \in HttpOutcomes : AfterTyping(h, http)
    \/ RecordAssistant(h)
    \/ error_handler(h)
    \/ Return(h)

\* Next with text events accepted while fewer than MaxFairStored messages
\* are stored
FairNext ==
    \E h \in SeqSlots :
        \/ \E u \in Users : start_command(h, u)
        \/ \E u \in Users : help_command(h, u)
        \/ \E u \in Users : reset_command(h, u)
        \/ \E u \in Users, text \in Texts :
               TotalStored < MaxFairStored /\ handle_text(h, u, text)
        \/ \E http \in HttpOutcomes : AfterTyping(h, http)
        \/ RecordAssistant(h)
        \/ \E u \in Users, mime \in MimeTypes, payload \in Payloads : handle_document(h, u, mime, payload)
        \/ error_handler(h)
        \/ Return(h)

\* The handlers when the transport starts the handling of an update while
\* another one is suspended at an await (an application built with
\* concurrent updates): two updates in flight.  Text events are accepted
\* while fewer than MaxOverlapStored messages are stored.
\* OverlapNext: both updates are of the same user.
OverlapUser == 1
OverlapNext ==
    \E h \in Slots :
        \/ start_command(h, OverlapUser)
        \/ help_command(h, OverlapUser)
        \/ reset_command(h, OverlapUser)
        \/ \E text \in SlotTexts(h) :
               TotalStored < MaxOverlapStored /\ handle_text(h, OverlapUser, text)
        \/ \E http \in OverlapOutcomes : AfterTyping(h, http)
        \/ RecordAssistant(h)
        \/ \E mime \in MimeTypes :
               handle_document(h, OverlapUser, mime, [valid |-> TRUE, text |-> "hello"])
        \/ error_handler(h)
        \/ Return(h)

SpecOverlap == Init /\ [][OverlapNext]_vars

\* UsersNext: the two updates in flight are of different users, slot h
\* handling the updates of user h
UsersNext ==
    \E h \in Slots :
        \/ start_command(h, h)
        \/ help_command(h, h)
        \/ reset_command(h, h)
        \/ \E text \in SlotTexts(h) :
               TotalStored < MaxOverlapStored /\ handle_text(h, h, text)
        \/ \E http \in OverlapOutcomes : AfterTyping(h, http)
        \/ RecordAssistant(h)
        \/ \E mime \in MimeTypes :
               handle_document(h, h, mime, [valid |-> TRUE, text |-> "hello"])
        \/ error_handler(h)
        \/ Return(h)

SpecUsers == Init /\ [][UsersNext]_vars

\* updates handled one at a time, suspended handlers eventually resumed
FairSpec == Init /\ [][FairNext]_vars /\ \A h \in SeqSlots : WF_vars(Resume(h))

----------------------------------------------------------------------------
(* Properties *)

Histories == {user_conversations[u] : u \in DOMAIN user_conversations}
Finished(e) == e.pc \in {"await_return", "done"}
\* the upstream call of event e has failed: an exception in requests
Failed(e) == e.posts = 1 /\ e.http.exc # "none"

\* C1: the history of every user never has more than
\* MAX_CONVERSATION_HISTORY + 1 entries, whatever the events were
C1_HistoryBounded ==
    \A hist \in Histories : Len(hist) <= MAX_CONVERSATION_HISTORY + 1

\* C2: once a user has a history, its first entry is the system message
\* and no other entry is a system message
C2_SystemFirst ==
    \A hist \in Histories :
        /\ Len(hist) >= 1
        /\ hist[1] = SystemMessage
        /\ \A i \in 2..Len(hist) : hist[i].role # "system"

\* a trim that discarded entries has happened and the reply was recorded
C2_Witness ==
    \E h \in Slots :
        /\ ev[h].handler = "handle_text" /\ ev[h].pc = "done"
        /\ Len(ev[h].pretrim) > MAX_CONVERSATION_HISTORY + 1
        /\ user_conversations[ev[h].user][1].role = "system"
        /\ Len(user_conversations[ev[h].user]) > MAX_CONVERSATION_HISTORY + 1

\* C3: when the upstream call of a text event fails, the history at the
\* end of the handler is the list that was passed to the call, its last
\* entry is the user's message, and the only reply is the error message
\* with the diagnostic of the failure
C3_FailureLeavesHistory ==
    \A h \in Slots :
        (ev[h].handler = "handle_text" /\ Finished(ev[h]) /\ Failed(ev[h])) =>
            /\ user_conversations[ev[h].user] = ev[h].reqs[1]
            /\ ev[h].reqs[1][Len(ev[h].reqs[1])] = [role |-> "user", content |-> ev[h].text]
            /\ \E prefix \in {"Oshibka zaprosa: ", "Nepredvidennaya oshibka: "} :
                   ev[h].out = <<"Oshibka: " \o prefix \o ev[h].http.detail>>

\* a timed-out call of a text event that found a full history
C3_Witness ==
    \E h \in Slots :
        /\ ev[h].handler = "handle_text" /\ ev[h].pc = "done" /\ Failed(ev[h])
        /\ ev[h].http.detail = "Read timed out"
        /\ Len(ev[h].pretrim) > MAX_CONVERSATION_HISTORY + 1
        /\ user_conversations[ev[h].user] = ev[h].reqs[1]

\* C4: after /reset and after /start the history of the sender is the
\* system message alone
C4_ResetFresh ==
    \A h \in Slots :
        (ev[h].handler \in {"reset_command", "start_command"} /\ Finished(ev[h])) =>
            /\ ev[h].user \in DOMAIN user_conversations
            /\ Len(user_conversations[ev[h].user]) = 1
            /\ user_conversations[ev[h].user][1] = SystemMessage

\* a /reset of a user whose history was longer than the retained window
C4_Witness ==
    \E h \in Slots :
        /\ ev[h].handler = "reset_command" /\ ev[h].pc = "done"
        /\ ev[h].user \in DOMAIN ev[h].before
        /\ Len(ev[h].before[ev[h].user]) > MAX_CONVERSATION_HISTORY + 1
        /\ user_conversations[ev[h].user] = <<SystemMessage>>

\* C5: a user with more than MAX_CONVERSATION_HISTORY user turns since
\* the last reset has a history of exactly MAX_CONVERSATION_HISTORY + 1
\* entries that starts with the system message
C5_FullAfterManyTurns ==
    \A u \in DOMAIN user_conversations :
        turns[u] > MAX_CONVERSATION_HISTORY =>
            /\ Len(user_conversations[u]) = MAX_CONVERSATION_HISTORY + 1
            /\ user_conversations[u][1].role = "system"

\* C6: right after a user append, the history is the appended list when
\* that has at most MAX_CONVERSATION_HISTORY + 1 entries, and otherwise
\* its first entry followed by its last MAX_CONVERSATION_HISTORY entries
\* in their order
C6_SlidingWindow ==
    \A h \in Slots :
        ev[h].pc = "typing" =>
            LET pre == ev[h].pretrim
                cur == user_conversations[ev[h].user]
                n == MAX_CONVERSATION_HISTORY + 1
            IN  IF Len(pre) <= n
                THEN cur = pre
                ELSE /\ Len(cur) = n
                     /\ cur[1] = pre[1]
                     /\ \A i \in 2..n : cur[i] = pre[Len(pre) - n + i]

\* a trim that discarded two entries, a user and an assistant message
C6_Witness ==
    \E h \in Slots :
        /\ ev[h].pc = "typing"
        /\ Len(ev[h].pretrim) = MAX_CONVERSATION_HISTORY + 3
        /\ ev[h].pretrim[2].role # ev[h].pretrim[3].role
        /\ Len(user_conversations[ev[h].user]) = MAX_CONVERSATION_HISTORY + 1

\* the upstream call of event e succeeded with the empty string as content
EmptyCompletion(e) ==
    /\ e.posts = 1 /\ e.http.exc = "none"
    /\ e.http.json = [choices |-> <<[message |-> [content |-> JStr("")]]>>]

\* C7: an empty-string completion is answered with the rephrase reply
\* alone, which no error reply equals, and leaves the history as it was
\* passed to the call; no stored assistant message is empty
C7_EmptyCompletion ==
    /\ \A h \in Slots :
        (ev[h].handler = "handle_text" /\ Finished(ev[h]) /\ EmptyCompletion(ev[h])) =>
            /\ ev[h].out = <<RephraseReply>>
            /\ user_conversations[ev[h].user] = ev[h].reqs[1]
            /\ \A http \in HttpOutcomes :
                   LET r == call_f5ai_api(F5AI_API_KEY, http)
                   IN  "error" \in DOMAIN r => ErrorReply(r["error"]) # RephraseReply
    /\ \A hist \in Histories : \A i \in 1..Len(hist) :
           hist[i].role = "assistant" => hist[i].content # ""

\* an empty completion has been answered
C7_Witness ==
    \E h \in Slots :
        /\ ev[h].handler = "handle_text" /\ ev[h].pc = "done" /\ EmptyCompletion(ev[h])
        /\ ev[h].out = <<RephraseReply>>

\* C8: without a credential a text message is answered with the
\* configuration error alone, no request is made and the store is as it
\* was when the message came in
C8_Unconfigured ==
    \A h \in Slots :
        (ev[h].handler = "handle_text" /\ Finished(ev[h]) /\ F5AI_API_KEY \in {None, ""}) =>
            /\ ev[h].out = <<ConfigErrorReply>>
            /\ ev[h].posts = 0 /\ ev[h].reqs = <<>>
            /\ user_conversations = ev[h].before

\* a text message without credential, from a user who has a history
C8_Witness ==
    \E h \in Slots :
        /\ ev[h].handler = "handle_text" /\ ev[h].pc = "done" /\ F5AI_API_KEY = ""
        /\ ev[h].user \in DOMAIN user_conversations
        /\ ev[h].out = <<ConfigErrorReply>>

\* C9: an upload whose declared type is not text/plain is answered with
\* the rejection alone, no request is made and the store is as it was
C9_RejectedUpload ==
    \A h \in Slots :
        (ev[h].handler = "handle_document" /\ Finished(ev[h]) /\ ev[h].mime # "text/plain") =>
            /\ ev[h].out = <<RejectReply>>
            /\ ev[h].posts = 0 /\ ev[h].reqs = <<>>
            /\ user_conversations = ev[h].before

\* a rejected upload while the store is not empty
C9_Witness ==
    \E h \in Slots :
        /\ ev[h].handler = "handle_document" /\ ev[h].pc = "done"
        /\ ev[h].mime = "application/pdf"
        /\ ev[h].out = <<RejectReply>>
        /\ user_conversations # EmptyDict

\* what a text message `text` of user u does to the store convs up to
\* the upstream call
TextAppended(convs, u, text) == Trim(AppendUser(Ensure(convs, u)[u], text))

\* C10: a text/plain upload of valid UTF-8 does to the store and to the
\* upstream what a text message with the decoded content does from the
\* same store: with a credential, one request carrying the history with
\* the user message appended, which is then the stored history, with or
\* without the assistant reply; without one, no request and no change
C10_UploadLikeText ==
    \A h \in Slots :
        (/\ ev[h].handler = "handle_document" /\ ev[h].pc = "done"
         /\ ev[h].mime = "text/plain" /\ ev[h].payload.valid) =>
            LET u == ev[h].user
                sent == TextAppended(ev[h].before, u, ev[h].payload.text)
            IN  IF Truthy(F5AI_API_KEY)
                THEN /\ ev[h].reqs = <<sent>>
                     /\ u \in DOMAIN user_conversations
                     /\ \/ user_conversations[u] = sent
                        \/ \E c \in ContentValues :
                               user_conversations[u] = AppendAssistant(sent, c.v)
                ELSE /\ ev[h].reqs = <<>>
                     /\ user_conversations = ev[h].before

\* the upstream call of event e returned a success envelope without a
\* usable content: no choices, no entry in choices, no message, no
\* content, or a null content
MalformedBodies ==
    {EmptyDict, [choices |-> <<>>], [choices |-> <<EmptyDict>>],
     [choices |-> <<[message |-> EmptyDict]>>],
     [choices |-> <<[message |-> [content |-> JNull]]>>]}
MalformedEnvelope(e) ==
    e.posts = 1 /\ e.http.exc = "none" /\ e.http.json \in MalformedBodies

\* C11: a malformed success envelope raises no exception in the handler,
\* is answered with the rephrase reply alone, which differs from every
\* request-error reply, and leaves the history as it was passed to the
\* call
C11_MalformedEnvelope ==
    \A h \in Slots :
        (ev[h].handler = "handle_text" /\ MalformedEnvelope(ev[h])) =>
            /\ ev[h].raised = "none"
            /\ ev[h].out = <<RephraseReply>>
            /\ \A http \in HttpOutcomes :
                   http.exc # "none" =>
                       ErrorReply(call_f5ai_api(F5AI_API_KEY, http)["error"]) # RephraseReply
            /\ user_conversations[ev[h].user] = ev[h].reqs[1]

\* event e met a failure: no credential, a failed or refused upstream
\* call, a completion without usable content, or an exception raised in
\* the handler
Unconfigured(e) == e.handler = "handle_text" /\ ~Truthy(F5AI_API_KEY)
MetFailure(e) ==
    \/ Unconfigured(e)
    \/ e.posts >= 1 /\ "error" \in DOMAIN e.resp
    \/ e.posts >= 1 /\ e.http.exc = "none" /\ e.http.json \in MalformedBodies
    \/ e.raised # "none"

\* C12: no event ever gets more than one reply, and an event that met a
\* failure and whose handling has ended has got exactly one, a text, the
\* handling having ended in the ordinary way
C12_OneReplyPerFailure ==
    \A h \in Slots :
        /\ Len(ev[h].out) <= 1
        /\ ev[h].pc # "crashed"
        /\ (MetFailure(ev[h]) /\ Finished(ev[h])) =>
               /\ Len(ev[h].out) = 1
               /\ ev[h].out[1] \in
                      {ConfigErrorReply, RephraseReply, ApologyReply}
                      \cup {ErrorReply(call_f5ai_api(F5AI_API_KEY, http)["error"]) :
                                http \in {x \in HttpOutcomes :
                                    "error" \in DOMAIN call_f5ai_api(F5AI_API_KEY, x)}}

\* an upload whose handler raised has been answered
C12_Witness ==
    \E h \in Slots :
        /\ ev[h].handler = "handle_document" /\ ev[h].pc = "done"
        /\ ev[h].raised # "none"
        /\ ev[h].out = <<ApologyReply>>

InFlight(e) == e.pc \notin {"idle", "done"}

\* C14: the handling of every event ends, also when the handler raised,
\* and then the next event of any user can be taken
C14_Survives ==
    \A h \in SeqSlots :
        InFlight(ev[h]) ~>
            (/\ ev[h].pc = "done"
             /\ \A u \in Users : ENABLED help_command(h, u) /\ ENABLED reset_command(h, u))

\* the handling of an event whose handler raised has ended
C14_Witness ==
    \E h \in SeqSlots :
        /\ ev[h].pc = "done" /\ ev[h].raised = "IndexError"
        /\ \A u \in Users : ENABLED reset_command(h, u)

\* C15: /start, /help and /reset make no upstream call and send one fixed
\* reply; /help leaves the store as it was, /start and /reset leave it as
\* it was but for the sender's history, which is the system message alone
C15_CommandsStayLocal ==
    \A h \in Slots :
        LET e == ev[h]
        IN  /\ e.handler = "help_command" =>
                /\ e.posts = 0 /\ e.reqs = <<>>
                /\ e.out = <<HelpReply>>
                /\ user_conversations = e.before
            /\ e.handler \in {"start_command", "reset_command"} =>
                /\ e.posts = 0 /\ e.reqs = <<>>
                /\ e.out = <<IF e.handler = "start_command" THEN GreetingReply ELSE ResetReply>>
                /\ DOMAIN user_conversations = DOMAIN e.before \cup {e.user}
                /\ \A u \in DOMAIN user_conversations :
                       user_conversations[u] =
                           IF u = e.user THEN <<SystemMessage>> ELSE e.before[u]

\* a /help of a user with a conversation while another user has one
C15_Witness ==
    \E h \in Slots :
        /\ ev[h].pc = "done" /\ ev[h].handler = "help_command"
        /\ ev[h].user \in DOMAIN user_conversations
        /\ Len(user_conversations[ev[h].user]) > 2
        /\ \E u \in DOMAIN user_conversations : u # ev[h].user

\* C16: an event makes at most one upstream call and at most one HTTP
\* request; after a failed request the handler ends with that one request
\* made
C16_NoRetry ==
    \A h \in Slots :
        /\ Len(ev[h].reqs) <= 1
        /\ ev[h].posts <= 1
        /\ ev[h].posts = Len(ev[h].reqs)
        /\ ev[h].handler \notin {"handle_text", "handle_document"} => ev[h].posts = 0

\* a text event whose request failed has ended
C16_Witness ==
    \E h \in Slots :
        /\ ev[h].handler = "handle_text" /\ ev[h].pc = "done"
        /\ ev[h].http.exc = "RequestException"
        /\ ev[h].posts = 1 /\ Len(ev[h].reqs) = 1

\* C17: with updates handled one at a time, the list passed to the
\* upstream for a text event is the stored history of the sender: the
\* system message, then the newest entries of the history the event found
\* in their order, then the event's user message, at most
\* MAX_CONVERSATION_HISTORY + 1 entries in all
C17_RequestIsHistory ==
    \A h \in Slots :
        (ev[h].handler = "handle_text" /\ Len(ev[h].reqs) >= 1) =>
            LET e == ev[h]
                m == e.reqs[1]
                prev == IF e.user \in DOMAIN e.before THEN e.before[e.user]
                        ELSE <<SystemMessage>>
                k == Len(m) - 2
            IN  /\ Len(m) >= 2 /\ Len(m) <= MAX_CONVERSATION_HISTORY + 1
                /\ m[1] = SystemMessage
                /\ m[Len(m)] = [role |-> "user", content |-> e.text]
                /\ k = IF Len(prev) - 1 < MAX_CONVERSATION_HISTORY - 1
                       THEN Len(prev) - 1 ELSE MAX_CONVERSATION_HISTORY - 1
                /\ \A i \in 1..k : m[1 + i] = prev[Len(prev) - k + i]
                /\ e.pc \in {"await_return", "await_append", "error_handler"} =>
                       user_conversations[e.user] = m

\* a request made from a history that had to be trimmed
C17_Witness ==
    \E h \in Slots :
        /\ ev[h].handler = "handle_text" /\ Len(ev[h].reqs) = 1
        /\ Len(ev[h].pretrim) = MAX_CONVERSATION_HISTORY + 3
        /\ Len(ev[h].reqs[1]) = MAX_CONVERSATION_HISTORY + 1
        /\ ev[h].reqs[1][2].role = "user"

\* steps of the handler in slot h: the upstream call, and the recording
\* of the reply
CallStep(h) == ev[h].pc = "typing" /\ ev'[h].pc # "typing" /\ Len(ev'[h].reqs) = 1
RecordStep(h) == ev[h].pc = "await_append" /\ ev'[h].pc = "done"
OwnMessage(e) == [role |-> "user", content |-> e.text]
Last(seq) == seq[Len(seq)]
\* the history event e left behind after its own append
LeftBy(e) ==
    IF Len(e.pretrim) > MAX_CONVERSATION_HISTORY + 1
    THEN <<e.pretrim[1]>>
         \o SubSeq(e.pretrim, Len(e.pretrim) - MAX_CONVERSATION_HISTORY + 1, Len(e.pretrim))
    ELSE e.pretrim

ResetStep(h, u) ==
    /\ CanTake(h)
    /\ ev'[h].pc = "await_return" /\ ev'[h].user = u
    /\ ev'[h].handler \in {"reset_command", "start_command"}
Has(seq, x) == \E i \in 1..Len(seq) : seq[i] = x

Acts(h) == ev'[h] # ev[h] /\ (ev'[h].pc # ev[h].pc \/ ev'[h].handler # ev[h].handler)

\* C20: a step of the handling of an update of user A creates, removes
\* and changes no history but A's, and the list passed to the upstream
\* for A is A's stored history, made of the system message, A's own
\* texts and the replies to them
C20_UserIsolation ==
    [][\A h \in Slots :
          Acts(h) =>
              LET a == ev'[h].user
              IN  /\ \A b \in Users \ {a} :
                        /\ b \in DOMAIN user_conversations' <=> b \in DOMAIN user_conversations
                        /\ b \in DOMAIN user_conversations =>
                               user_conversations'[b] = user_conversations[b]
                  /\ CallStep(h) =>
                        /\ ev'[h].reqs = <<user_conversations[a]>>
                        /\ \A i \in 1..Len(ev'[h].reqs[1]) :
                               LET m == ev'[h].reqs[1][i]
                               IN  m.role = "user" => m.content \in SlotTexts(a)]_vars

\* an update of user 1 has been answered from user 1's history while an
\* update of user 2 is in flight and user 2 has a history of its own
C20_Witness ==
    /\ ev[1].handler = "handle_text" /\ ev[1].user = 1 /\ ev[1].pc = "done"
    /\ Len(ev[1].reqs) = 1
    /\ ev[2].handler = "handle_text" /\ ev[2].user = 2 /\ ev[2].pc = "typing"
    /\ Len(user_conversations[1]) >= 3
    /\ Len(user_conversations[2]) >= 2
    /\ Has(user_conversations[2], [role |-> "user", content |-> "bye"])
    /\ ~Has(user_conversations[1], [role |-> "user", content |-> "bye"])

====
